---- MODULE Spec2Model ----
(***************************************************************************)
(* Model of the stats library (src/src/lib.rs): mean, stddev, median and   *)
(* l2 over a slice of f64.                                                 *)
(*                                                                         *)
(* f64 is IEEE-754 binary64: every operation gives the correctly rounded   *)
(* result (round to nearest, ties to even), with subnormals, signed zeros, *)
(* overflow to an infinity and NaN.  A finite value is kept as a sign and  *)
(* m * 2^e with m odd; m can exceed the integers of the checker, so it is  *)
(* a sequence of 15-bit limbs.  The payload and the sign of a NaN are not  *)
(* modelled.                                                               *)
(*                                                                         *)
(* usize is 64 bits wide.  A subtraction that would be negative panics     *)
(* when the build has overflow checks (debug) and wraps when it has not    *)
(* (release); a call is modelled for both builds.  A wrapped value         *)
(* 2^64 + u, u < 0, is kept as the negative integer u.                     *)
(***************************************************************************)
EXTENDS Integers, Sequences, FiniteSets, TLC

VARIABLES sample,   \* the caller's slice, passed as &[f64] to every function
          called,   \* the function whose result the caller holds, or "none"
          outcome,  \* what that call did: panicked, or returned an Option<f64>
          sorted    \* the Vec owned by that call of median, after sort_by

vars == <<sample, called, outcome, sorted>>

\* Bound of the model: the longest sample.
MaxLen == 3

-----------------------------------------------------------------------------
(* Natural numbers of any size: little-endian sequences of 15-bit limbs,   *)
(* without leading zero limbs; <<>> is 0.                                  *)
LimbBits == 15
Base == 2^LimbBits

RECURSIVE BStrip(_)
BStrip(x) ==
    IF Len(x) = 0 THEN x
    ELSE IF x[Len(x)] = 0 THEN BStrip(SubSeq(x, 1, Len(x) - 1)) ELSE x

BLimb(x, i) == IF i <= Len(x) THEN x[i] ELSE 0

RECURSIVE BFromNat(_)
BFromNat(i) == IF i = 0 THEN <<>> ELSE <<i % Base>> \o BFromNat(i \div Base)

RECURSIVE BAddC(_, _, _, _)
BAddC(x, y, i, c) ==
    IF i > Len(x) /\ i > Len(y) THEN (IF c = 0 THEN <<>> ELSE <<c>>)
    ELSE LET t == BLimb(x, i) + BLimb(y, i) + c
         IN  <<t % Base>> \o BAddC(x, y, i + 1, t \div Base)
BAdd(x, y) == BAddC(x, y, 1, 0)

\* x - y for x >= y
RECURSIVE BSubC(_, _, _, _)
BSubC(x, y, i, b) ==
    IF i > Len(x) THEN <<>>
    ELSE LET t == x[i] - BLimb(y, i) - b
         IN  <<(t + Base) % Base>> \o BSubC(x, y, i + 1, IF t < 0 THEN 1 ELSE 0)
BSub(x, y) == BStrip(BSubC(x, y, 1, 0))

RECURSIVE BCmpFrom(_, _, _)
BCmpFrom(x, y, i) ==
    IF i = 0 THEN 0
    ELSE IF x[i] < y[i] THEN -1
    ELSE IF x[i] > y[i] THEN 1
    ELSE BCmpFrom(x, y, i - 1)
\* -1, 0, 1 as x <, =, > y
BCmp(x, y) ==
    IF Len(x) < Len(y) THEN -1
    ELSE IF Len(x) > Len(y) THEN 1
    ELSE BCmpFrom(x, y, Len(x))

\* x * k for 0 <= k < Base
RECURSIVE BMulSmallC(_, _, _, _)
BMulSmallC(x, k, i, c) ==
    IF i > Len(x) THEN (IF c = 0 THEN <<>> ELSE <<c>>)
    ELSE LET t == x[i] * k + c
         IN  <<t % Base>> \o BMulSmallC(x, k, i + 1, t \div Base)
BMulSmall(x, k) == IF k = 0 THEN <<>> ELSE BMulSmallC(x, k, 1, 0)

RECURSIVE BMulFrom(_, _, _)
BMulFrom(x, y, j) ==
    IF j > Len(y) THEN <<>>
    ELSE BAdd(BMulSmall(x, y[j]), <<0>> \o BMulFrom(x, y, j + 1))
BMul(x, y) == BStrip(BMulFrom(x, y, 1))

\* quotient of x by k, 0 < k <= Base, limbs 1..i, with rem carried from above
RECURSIVE BDivSmallC(_, _, _, _)
BDivSmallC(x, k, i, rem) ==
    IF i = 0 THEN <<>>
    ELSE LET t == rem * Base + x[i]
         IN  Append(BDivSmallC(x, k, i - 1, t % k), t \div k)
BDivSmall(x, k) == BStrip(BDivSmallC(x, k, Len(x), 0))

RECURSIVE BModSmallC(_, _, _, _)
BModSmallC(x, k, i, rem) ==
    IF i = 0 THEN rem ELSE BModSmallC(x, k, i - 1, (rem * Base + x[i]) % k)
BModSmall(x, k) == BModSmallC(x, k, Len(x), 0)

Zeros(n) == [zi \in 1..n |-> 0]

BShl(x, n) ==
    IF Len(x) = 0 THEN x
    ELSE Zeros(n \div LimbBits) \o BMulSmall(x, 2^(n % LimbBits))

BShr(x, n) ==
    IF n \div LimbBits >= Len(x) THEN <<>>
    ELSE BDivSmall(SubSeq(x, n \div LimbBits + 1, Len(x)), 2^(n % LimbBits))

\* bit i (from 0) of x
BBit(x, i) == (BLimb(x, i \div LimbBits + 1) \div 2^(i % LimbBits)) % 2

\* the low n bits of x are all 0
BLowZero(x, n) ==
    /\ \A i \in 1..(n \div LimbBits) : BLimb(x, i) = 0
    /\ BLimb(x, n \div LimbBits + 1) % 2^(n % LimbBits) = 0

RECURSIVE NatBitLen(_)
NatBitLen(i) == IF i = 0 THEN 0 ELSE 1 + NatBitLen(i \div 2)
BBitLen(x) ==
    IF Len(x) = 0 THEN 0 ELSE LimbBits * (Len(x) - 1) + NatBitLen(x[Len(x)])

RECURSIVE BTrailZ(_, _)
BTrailZ(x, i) == IF BBit(x, i) = 1 THEN i ELSE BTrailZ(x, i + 1)
\* number of trailing zero bits of x # 0
BTrailingZeros(x) == BTrailZ(x, 0)

BPow2(p) == BShl(<<1>>, p)

\* quotient and remainder of x by y # 0, bit by bit from the top: q and r
\* are the quotient and the remainder of the bits above bit i
RECURSIVE BDivModC(_, _, _, _, _)
BDivModC(x, y, i, q, r) ==
    IF i < 0 THEN [q |-> q, r |-> r]
    ELSE LET r2 == BAdd(BAdd(r, r), IF BBit(x, i) = 1 THEN <<1>> ELSE <<>>)
             ge == BCmp(r2, y) >= 0
         IN  IF Len(q) = 0 /\ ~ge THEN BDivModC(x, y, i - 1, q, r2)
             ELSE BDivModC(x, y, i - 1,
                           BAdd(BAdd(q, q), IF ge THEN <<1>> ELSE <<>>),
                           IF ge THEN BSub(r2, y) ELSE r2)
BDivMod(x, y) ==
    IF Len(y) = 1
    THEN [q |-> BDivSmall(x, y[1]), r |-> BFromNat(BModSmall(x, y[1]))]
    ELSE IF BBitLen(x) < BBitLen(y) THEN [q |-> <<>>, r |-> x]
    ELSE BDivModC(x, y, BBitLen(x) - BBitLen(y), <<>>,
                  BShr(x, BBitLen(x) - BBitLen(y) + 1))

\* integer square root of x and the remainder, two bits at a time;
\* p is the exponent of the current power of 4
RECURSIVE BSqrtC(_, _, _)
BSqrtC(x, res, p) ==
    IF p < 0 THEN [q |-> res, r |-> x]
    ELSE LET t == BAdd(res, BPow2(p))
         IN  IF BCmp(x, t) >= 0
             THEN BSqrtC(BSub(x, t), BAdd(BShr(res, 1), BPow2(p)), p - 2)
             ELSE BSqrtC(x, BShr(res, 1), p - 2)
BSqrtRem(x) ==
    IF Len(x) = 0 THEN [q |-> <<>>, r |-> <<>>]
    ELSE BSqrtC(x, <<>>, 2 * ((BBitLen(x) - 1) \div 2))

-----------------------------------------------------------------------------
(* f64: sign s (1 is negative), and for a finite value the magnitude       *)
(* m * 2^e with m odd (m = 0 and e = 0 for a zero).                        *)
MantBits == 53
MaxExp == 1023
MinExp == -1074

NaN == [k |-> "nan", s |-> 0, m |-> <<>>, e |-> 0]
Inf(s) == [k |-> "inf", s |-> s, m |-> <<>>, e |-> 0]
FZero(s) == [k |-> "fin", s |-> s, m |-> <<>>, e |-> 0]
Zero == FZero(0)

IsNaN(a) == a.k = "nan"
IsInf(a) == a.k = "inf"
IsFinite(a) == a.k = "fin"
IsZero(a) == a.k = "fin" /\ Len(a.m) = 0

\* The finite value m * 2^e, which needs no rounding, in canonical form.
Canon(s, m, e) ==
    IF Len(m) = 0 THEN FZero(s)
    ELSE LET z == BTrailingZeros(m)
         IN  [k |-> "fin", s |-> s, m |-> BShr(m, z), e |-> e + z]

\* The f64 nearest to (m + f) * 2^e, ties to even, where 0 < f < 1 when
\* sticky and f = 0 otherwise; overflow gives an infinity.
RoundPack(s, m, e, sticky) ==
    LET l == BBitLen(m)
        t == IF e + l - MantBits > MinExp THEN e + l - MantBits ELSE MinExp
        sh == t - e
        q == BShr(m, sh)
        half == BBit(m, sh - 1) = 1
        low == sticky \/ ~BLowZero(m, sh - 1)
        up == half /\ (low \/ BBit(q, 0) = 1)
        r == IF up THEN BAdd(q, <<1>>) ELSE q
    IN  IF sh <= 0
        THEN (IF l + e - 1 > MaxExp THEN Inf(s) ELSE Canon(s, m, e))
        ELSE IF BBitLen(r) + t - 1 > MaxExp THEN Inf(s)
        ELSE Canon(s, r, t)

Xor(s, t) == IF s = t THEN 0 ELSE 1

FNeg(a) == IF IsNaN(a) THEN a ELSE [a EXCEPT !.s = 1 - a.s]
FAbs(a) == IF IsNaN(a) THEN a ELSE [a EXCEPT !.s = 0]

\* -1, 0, 1 as |a| <, =, > |b| for finite a, b
MagCmp(a, b) ==
    IF IsZero(a) \/ IsZero(b)
    THEN (IF IsZero(a) /\ IsZero(b) THEN 0 ELSE IF IsZero(a) THEN -1 ELSE 1)
    ELSE LET ta == a.e + BBitLen(a.m)
             tb == b.e + BBitLen(b.m)
         IN  IF ta < tb THEN -1
             ELSE IF ta > tb THEN 1
             ELSE IF a.e >= b.e THEN BCmp(BShl(a.m, a.e - b.e), b.m)
             ELSE BCmp(a.m, BShl(b.m, b.e - a.e))

\* Exponent gap beyond which the smaller operand of a sum is below a
\* quarter of the last place of the larger one.
AddGap == 2 * MantBits + 24

FAddFinite(a, b) ==
    IF IsZero(a) /\ IsZero(b) THEN FZero(IF a.s = 1 /\ b.s = 1 THEN 1 ELSE 0)
    ELSE IF IsZero(a) THEN b
    ELSE IF IsZero(b) THEN a
    ELSE IF a.e - b.e > AddGap THEN a
    ELSE IF b.e - a.e > AddGap THEN b
    ELSE LET e == IF a.e < b.e THEN a.e ELSE b.e
             x == BShl(a.m, a.e - e)
             y == BShl(b.m, b.e - e)
             c == BCmp(x, y)
         IN  IF a.s = b.s THEN RoundPack(a.s, BAdd(x, y), e, FALSE)
             ELSE IF c = 0 THEN Zero
             ELSE IF c > 0 THEN RoundPack(a.s, BSub(x, y), e, FALSE)
             ELSE RoundPack(b.s, BSub(y, x), e, FALSE)

FAdd(a, b) ==
    IF IsNaN(a) \/ IsNaN(b) THEN NaN
    ELSE IF IsInf(a) /\ IsInf(b) THEN (IF a.s = b.s THEN a ELSE NaN)
    ELSE IF IsInf(a) THEN a
    ELSE IF IsInf(b) THEN b
    ELSE FAddFinite(a, b)

FSub(a, b) == FAdd(a, FNeg(b))

FMul(a, b) ==
    IF IsNaN(a) \/ IsNaN(b) THEN NaN
    ELSE IF IsInf(a) \/ IsInf(b)
         THEN (IF IsZero(a) \/ IsZero(b) THEN NaN ELSE Inf(Xor(a.s, b.s)))
    ELSE IF IsZero(a) \/ IsZero(b) THEN FZero(Xor(a.s, b.s))
    ELSE RoundPack(Xor(a.s, b.s), BMul(a.m, b.m), a.e + b.e, FALSE)

FDiv(a, b) ==
    IF IsNaN(a) \/ IsNaN(b) THEN NaN
    ELSE IF IsInf(a) THEN (IF IsInf(b) THEN NaN ELSE Inf(Xor(a.s, b.s)))
    ELSE IF IsInf(b) THEN FZero(Xor(a.s, b.s))
    ELSE IF IsZero(b) THEN (IF IsZero(a) THEN NaN ELSE Inf(Xor(a.s, b.s)))
    ELSE IF IsZero(a) THEN FZero(Xor(a.s, b.s))
    ELSE LET k == MantBits + 3 + BBitLen(b.m) - BBitLen(a.m)
             d == BDivMod(BShl(a.m, k), b.m)
         IN  RoundPack(Xor(a.s, b.s), d.q, a.e - b.e - k, Len(d.r) # 0)

FSqrt(a) ==
    IF IsNaN(a) THEN NaN
    ELSE IF IsZero(a) THEN a
    ELSE IF a.s = 1 THEN NaN
    ELSE IF IsInf(a) THEN a
    ELSE LET k0 == 2 * MantBits + 6 - BBitLen(a.m)
             k == IF (a.e - k0) % 2 = 0 THEN k0 ELSE k0 + 1
             d == BSqrtRem(BShl(a.m, k))
         IN  RoundPack(0, d.q, (a.e - k) \div 2, Len(d.r) # 0)

\* a.partial_cmp(b): "Less", "Equal", "Greater", or "None" with a NaN
Ordering(c) == IF c < 0 THEN "Less" ELSE IF c > 0 THEN "Greater" ELSE "Equal"
Rank(a) == IF IsInf(a) THEN (IF a.s = 1 THEN -2 ELSE 2)
           ELSE IF IsZero(a) THEN 0 ELSE IF a.s = 1 THEN -1 ELSE 1
partial_cmp(a, b) ==
    IF IsNaN(a) \/ IsNaN(b) THEN "None"
    ELSE IF Rank(a) # Rank(b) THEN Ordering(Rank(a) - Rank(b))
    ELSE IF IsInf(a) \/ IsZero(a) THEN "Equal"
    ELSE IF a.s = 0 THEN Ordering(MagCmp(a, b))
    ELSE Ordering(MagCmp(b, a))

FLess(a, b) == partial_cmp(a, b) = "Less"
FEq(a, b) == partial_cmp(a, b) = "Equal"

\* usize as f64; a negative u stands for the wrapped value 2^64 + u
UsizeBits == 64
AsF64(u) ==
    IF u >= 0 THEN RoundPack(0, BFromNat(u), 0, FALSE)
    ELSE RoundPack(0, BSub(BPow2(UsizeBits), BFromNat(-u)), 0, FALSE)

-----------------------------------------------------------------------------
(* usize *)

\* a < b on usize
ULess(a, b) == IF (a < 0) = (b < 0) THEN a < b ELSE b < 0

\* a - b on usize: a panic with overflow checks when a < b, else wrapping.
USub(a, b, checks) ==
    IF checks /\ ULess(a, b) THEN [panic |-> TRUE, val |-> 0]
    ELSE [panic |-> FALSE, val |-> a - b]

-----------------------------------------------------------------------------
(* Option<f64>, and the outcome of a call *)

None == <<>>
Some(v) == <<v>>
IsSome(o) == Len(o) = 1
Unwrap(o) == o[1]

Returned(o) == [panic |-> FALSE, ret |-> o]
Panicked == [panic |-> TRUE, ret |-> None]

\* Intermediate results: a value, or a panic raised while computing it.
Ok(v) == [panic |-> FALSE, val |-> v]
Fault == [panic |-> TRUE, val |-> NaN]

\* nums[i] with i a zero-based usize: in bounds, or a panic.
InBounds(nums, i) == 0 <= i /\ i < Len(nums)
At(nums, i) == nums[i + 1]

-----------------------------------------------------------------------------
(* mean *)

\* for i in 0..nums.len() { sum += nums[i]; }
RECURSIVE mean_sum(_, _, _)
mean_sum(nums, i, sum) ==
    IF i >= Len(nums) THEN Ok(sum)
    ELSE IF ~InBounds(nums, i) THEN Fault
    ELSE mean_sum(nums, i + 1, FAdd(sum, At(nums, i)))

\* let len = nums.len() as f64; sum / len
mean_div_bessel(sum, len) == FDiv(sum, AsF64(len - 1))
mean_div(sum, len) == FDiv(sum, AsF64(len))

mean(nums) ==
    IF Len(nums) = 0 THEN Returned(Some(Zero))
    ELSE LET acc == mean_sum(nums, 0, Zero)
         IN  IF acc.panic THEN Panicked
             ELSE Returned(Some(mean_div(acc.val, Len(nums))))

-----------------------------------------------------------------------------
(* stddev *)

\* for i in 0..nums.len() { xs.push((nums[i] - mean) * (nums[i] - mean)); }
RECURSIVE stddev_xs(_, _, _, _)
stddev_xs(nums, m, i, xs) ==
    IF i >= Len(nums) THEN Ok(xs)
    ELSE IF ~InBounds(nums, i) THEN [panic |-> TRUE, val |-> xs]
    ELSE stddev_xs(nums, m, i + 1,
                   Append(xs, FMul(FSub(At(nums, i), m), FSub(At(nums, i), m))))

\* for i in 0..xs.len() { sum += xs[i]; }
RECURSIVE stddev_sum(_, _, _)
stddev_sum(xs, i, sum) ==
    IF i >= Len(xs) THEN Ok(sum)
    ELSE IF ~InBounds(xs, i) THEN Fault
    ELSE stddev_sum(xs, i + 1, FAdd(sum, At(xs, i)))

\* sum / (nums.len() - 1) as f64
stddev_div_population(sum, len, checks) == Ok(FDiv(sum, AsF64(len)))
stddev_div(sum, len, checks) ==
    LET d == USub(len, 1, checks)
    IN  IF d.panic THEN Fault ELSE Ok(FDiv(sum, AsF64(d.val)))

stddev(nums, checks) ==
    IF Len(nums) = 0 THEN Returned(None)
    ELSE LET result == mean(nums)
             m == IF IsSome(result.ret) THEN Unwrap(result.ret) ELSE Zero
             xs == stddev_xs(nums, m, 0, <<>>)
             sum == stddev_sum(xs.val, 0, Zero)
             q == stddev_div(sum.val, Len(nums), checks)
         IN  IF result.panic \/ xs.panic \/ sum.panic \/ q.panic THEN Panicked
             ELSE Returned(Some(FSqrt(q.val)))

-----------------------------------------------------------------------------
(* median *)

\* A sort that panicked has no result.  The order in which it leaves the
\* slice is not specified and depends on the algorithm the library picks
\* for the length; see sort_unwound.
SortPanicked == [panic |-> TRUE]

\* One step of the stable sort: x goes after every element that is not
\* greater than it.  A comparison with a NaN is None, and unwrap() panics.
RECURSIVE sort_insert(_, _)
sort_insert(s, x) ==
    IF Len(s) = 0 THEN Ok(<<x>>)
    ELSE LET c == partial_cmp(x, s[Len(s)])
             r == sort_insert(SubSeq(s, 1, Len(s) - 1), x)
         IN  IF c = "None" THEN SortPanicked
             ELSE IF c = "Less"
                  THEN (IF r.panic THEN SortPanicked
                        ELSE Ok(Append(r.val, s[Len(s)])))
             ELSE Ok(Append(s, x))

RECURSIVE sort_from(_, _, _)
sort_from(nums, i, acc) ==
    IF acc.panic THEN SortPanicked
    ELSE IF i > Len(nums) THEN acc
    ELSE sort_from(nums, i + 1, sort_insert(acc.val, nums[i]))

\* The Vecs a panicking sort_by can leave behind while the stack unwinds:
\* every element is still there, in some order.
sort_unwound(nums) ==
    {[i \in 1..Len(nums) |-> nums[p[i]]] : p \in Permutations(1..Len(nums))}

\* nums.sort_by(|a, b| a.partial_cmp(b).unwrap()): a stable ascending sort.
sort_by_skipped(nums) == Ok(nums)
sort_by(nums) == sort_from(nums, 1, Ok(<<>>))

\* let mut nums = nums.to_owned(): the Vec the function owns.
to_owned(nums) == nums

\* The caller's slice after the call: it is borrowed immutably, and sort_by
\* acts on the owned Vec.
median_caller_inplace(nums) == sort_by(nums).val
median_caller(nums) == nums

\* return Some(nums[i])
ReturnAt(nums, i) ==
    IF InBounds(nums, i) THEN Returned(Some(At(nums, i))) ELSE Panicked

\* if nums.len() % 2 == 0 { ... }
median_even_bug(nums, checks) ==
    LET j == Len(nums) \div 2
        d1 == USub(Len(nums), 2, checks)
        d2 == USub(d1.val, j, checks)
        d3 == USub(j, 1, checks)
    IN  IF d1.panic \/ d2.panic THEN Panicked
        ELSE IF ULess(j, d2.val) THEN ReturnAt(nums, j)
        ELSE IF d3.panic THEN Panicked
        ELSE ReturnAt(nums, d3.val)
median_even_upper(nums, checks) == ReturnAt(nums, Len(nums) \div 2)
median_even(nums, checks) ==
    LET j == Len(nums) \div 2
        d1 == USub(Len(nums), 1, checks)
        d2 == USub(d1.val, j, checks)
        d3 == USub(j, 1, checks)
    IN  IF d1.panic \/ d2.panic THEN Panicked
        ELSE IF ULess(j, d2.val) THEN ReturnAt(nums, j)
        ELSE IF d3.panic THEN Panicked
        ELSE ReturnAt(nums, d3.val)

\* else { for i in 0..nums.len() { if i == nums.len() - (i + 1) { ... } } }  None
RECURSIVE median_odd_bug(_, _, _)
median_odd_bug(nums, i, checks) ==
    LET d == USub(Len(nums), i + 1, checks)
    IN  IF i >= Len(nums) THEN Returned(None)
        ELSE IF d.panic THEN Panicked
        ELSE IF i + 1 = d.val
             THEN (IF InBounds(nums, i) THEN Returned(Some(FAbs(At(nums, i))))
                   ELSE Panicked)
        ELSE median_odd_bug(nums, i + 1, checks)
RECURSIVE median_odd(_, _, _)
median_odd(nums, i, checks) ==
    LET d == USub(Len(nums), i + 1, checks)
    IN  IF i >= Len(nums) THEN Returned(None)
        ELSE IF d.panic THEN Panicked
        ELSE IF i = d.val
             THEN (IF InBounds(nums, i) THEN Returned(Some(FAbs(At(nums, i))))
                   ELSE Panicked)
        ELSE median_odd(nums, i + 1, checks)

\* The Vecs the call of median can own after line 106: the sorted one, or,
\* when sort_by panicked, any of those the sort can leave behind.
median_sorted(nums) ==
    LET v == sort_by(to_owned(nums))
    IN  IF v.panic THEN sort_unwound(to_owned(nums)) ELSE {v.val}

median(nums, checks) ==
    LET v == sort_by(to_owned(nums))
    IN  IF v.panic THEN Panicked
        ELSE IF Len(v.val) = 0 THEN Returned(None)
        ELSE IF Len(v.val) % 2 = 0 THEN median_even(v.val, checks)
        ELSE median_odd(v.val, 0, checks)

-----------------------------------------------------------------------------
(* l2 *)

\* for i in 0..nums.len() { v.push(nums[i] * nums[i]); }
RECURSIVE l2_v_bug(_, _, _)
l2_v_bug(nums, i, v) ==
    IF i >= Len(nums) THEN Ok(v)
    ELSE IF ~InBounds(nums, i) THEN [panic |-> TRUE, val |-> v]
    ELSE l2_v_bug(nums, i + 1, Append(v, At(nums, i)))
RECURSIVE l2_v(_, _, _)
l2_v(nums, i, v) ==
    IF i >= Len(nums) THEN Ok(v)
    ELSE IF ~InBounds(nums, i) THEN [panic |-> TRUE, val |-> v]
    ELSE l2_v(nums, i + 1, Append(v, FMul(At(nums, i), At(nums, i))))

\* for i in 0..v.len() { sum += v[i]; }
RECURSIVE l2_sum(_, _, _)
l2_sum(v, i, sum) ==
    IF i >= Len(v) THEN Ok(sum)
    ELSE IF ~InBounds(v, i) THEN Fault
    ELSE l2_sum(v, i + 1, FAdd(sum, At(v, i)))

l2(nums) ==
    LET v == l2_v(nums, 0, <<>>)
        sum == l2_sum(v.val, 0, Zero)
    IN  IF v.panic \/ sum.panic THEN Panicked
        ELSE Returned(Some(FSqrt(sum.val)))

-----------------------------------------------------------------------------
(* The caller *)

\* The f64 of a small integer.
I(i) == IF i < 0 THEN FNeg(AsF64(-i)) ELSE AsF64(i)

\* 0.1, that is 3602879701896397 * 2^-55
Tenth == [k |-> "fin", s |-> 0, m |-> <<19661, 6553, 13107, 102>>, e |-> -55]

\* 0.1 * 2^-500: the mean of three of them is one ulp too large, and the
\* square of that ulp underflows to 0.0
Tiny == [Tenth EXCEPT !.e = -555]

\* 2^1023, whose double and whose square overflow
Huge == Canon(0, <<1>>, MaxExp)

\* The elements a sample is drawn from.  They are NaN-free: negative and
\* positive values, both zeros, a value that sums inexactly, one whose
\* deviations underflow when squared, one that overflows, and both infinities.
Elems == {I(-2), I(-1), FZero(1), Zero, I(1), Tenth, Tiny, Huge, Inf(0), Inf(1)}

Samples == UNION {[1..n -> Elems] : n \in 0..MaxLen}

Init ==
    /\ sample \in Samples
    /\ called = "none"
    /\ outcome = Returned(None)
    /\ sorted = <<>>

CallMean ==
    /\ called = "none"
    /\ called' = "mean"
    /\ outcome' = mean(sample)
    /\ sorted' = <<>>
    /\ UNCHANGED sample

CallStddev ==
    \E checks \in BOOLEAN :
        /\ called = "none"
        /\ called' = "stddev"
        /\ outcome' = stddev(sample, checks)
        /\ sorted' = <<>>
        /\ UNCHANGED sample

CallMedian ==
    \E checks \in BOOLEAN :
        /\ called = "none"
        /\ called' = "median"
        /\ outcome' = median(sample, checks)
        /\ sorted' \in median_sorted(sample)
        /\ sample' = median_caller(sample)

CallL2 ==
    /\ called = "none"
    /\ called' = "l2"
    /\ outcome' = l2(sample)
    /\ sorted' = <<>>
    /\ UNCHANGED sample

\* The caller is done with the result: the Option<f64> is dropped (the Vec
\* of median was dropped when median returned), and the slice can be passed
\* to the next call.
Drop ==
    /\ called # "none"
    /\ called' = "none"
    /\ outcome' = Returned(None)
    /\ sorted' = <<>>
    /\ UNCHANGED sample

Next == CallMean \/ CallStddev \/ CallMedian \/ CallL2 \/ Drop

Spec == Init /\ [][Next]_vars

-----------------------------------------------------------------------------
(* Reference notions the properties are stated with *)

Idx(s) == 1..Len(s)
N == Len(sample)
Value == Unwrap(outcome.ret)

\* The same number: equal as f64 (0.0 and -0.0 are equal), or both NaN.
SameNumber(a, b) == (IsNaN(a) /\ IsNaN(b)) \/ FEq(a, b)

\* v is an element of s that stands at zero-based index k when s is put in
\* ascending order: at most k elements are smaller, more than k not larger.
IsOrderStat(s, k, v) ==
    /\ \E i \in Idx(s) : s[i] = v
    /\ Cardinality({i \in Idx(s) : FLess(s[i], v)}) <= k
    /\ Cardinality({i \in Idx(s) : ~FLess(v, s[i])}) > k

\* x_0 + x_1 + ... + x_{n-1} in f64, added from the left, for n >= 1.
RECURSIVE LeftSum(_)
LeftSum(s) ==
    IF Len(s) = 1 THEN s[1]
    ELSE FAdd(LeftSum(SubSeq(s, 1, Len(s) - 1)), s[Len(s)])

Squares(s) == [i \in Idx(s) |-> FMul(s[i], s[i])]
Deviations(s, m) == [i \in Idx(s) |-> FSub(s[i], m)]

\* The f64 sum of the squared deviations of s from mean(s).
SqDevSum(s) == LeftSum(Squares(Deviations(s, Unwrap(mean(s).ret))))

Reorder(s, p) == [i \in Idx(s) |-> s[p[i]]]
AbsAll(s) == [i \in Idx(s) |-> FAbs(s[i])]
AllEqual(s) == \A i \in Idx(s) : s[i] = s[1]

\* s with a NaN in place of its i-th element.
WithNaN(s, i) == [s EXCEPT ![i] = NaN]

\* Two outcomes a caller cannot tell apart with ==.
SameOutcome(o1, o2) ==
    /\ o1.panic = o2.panic
    /\ IsSome(o1.ret) = IsSome(o2.ret)
    /\ IsSome(o1.ret) => SameNumber(Unwrap(o1.ret), Unwrap(o2.ret))

-----------------------------------------------------------------------------
(* Properties *)

\* C1: for a sample with an odd number of elements n, median returns the
\* element at index (n-1)/2 of the ascending-sorted sample exactly as it
\* appears in the sample, also when it is negative.
C1_OddMedianIsMiddleElement ==
    (called = "median" /\ N % 2 = 1)
        => /\ outcome = Returned(Some(sorted[(N + 1) \div 2]))
           /\ IsOrderStat(sample, (N - 1) \div 2, Value)

\* C2: for a sample with an even number of elements n >= 2, median returns
\* the element at index n/2 - 1 of the ascending-sorted sample, the lower of
\* the two central values.
C2_EvenMedianIsLowerMiddle ==
    (called = "median" /\ N % 2 = 0 /\ N >= 2)
        => /\ outcome = Returned(Some(sorted[N \div 2]))
           /\ IsOrderStat(sample, N \div 2 - 1, Value)

C2_Witness ==
    /\ called = "median"
    /\ N = 2
    /\ FLess(sample[2], sample[1])
    /\ outcome.ret = Some(sample[2])

\* C3: the result is absent exactly for stddev of the empty sample and
\* median of the empty sample; every other call returns a present value.
C3_AbsentOnlyWhenEmpty ==
    called # "none"
        => (outcome.ret = None <=> (called \in {"stddev", "median"} /\ N = 0))

C3_Witness ==
    /\ called = "median"
    /\ N = 3
    /\ IsSome(outcome.ret)

\* C4: stddev of a sample of exactly one element is present and is not a
\* finite number: it is the NaN or infinity of a division by n - 1 = 0.
C4_StddevOfOneIsNonFinite ==
    (called = "stddev" /\ N = 1)
        => (~outcome.panic /\ IsSome(outcome.ret) /\ ~IsFinite(Value))

C4_Witness ==
    /\ called = "stddev"
    /\ N = 1
    /\ sample[1] = Tenth
    /\ outcome = Returned(Some(NaN))

\* C5: median gives the same result for every reordering of the sample.
C5_MedianPermutationInvariant ==
    called = "median"
        => \A p \in Permutations(Idx(sample)) :
               \A checks \in BOOLEAN :
                   SameOutcome(median(Reorder(sample, p), checks), outcome)

C5_Witness ==
    /\ called = "median"
    /\ N = 3
    /\ FLess(sample[3], sample[1])
    /\ FLess(sample[1], sample[2])
    /\ IsSome(outcome.ret)

\* C6: no call changes the caller's sample: median sorts a copy it owns,
\* and mean, stddev and l2 only read.
C6_CallerSampleUnchanged == [][sample' = sample]_vars

C6_Witness ==
    /\ called = "median"
    /\ N = 3
    /\ sorted # sample
    /\ FLess(sample[2], sample[1])
    /\ \A i \in 1..(Len(sorted) - 1) : ~FLess(sorted[i + 1], sorted[i])

\* C7 as claimed: for n >= 2 the square of the result times n - 1 equals
\* the sum of squared deviations from the mean, and n identical values
\* give 0.0.
C7_StddevExactBessel ==
    (called = "stddev" /\ N >= 2)
        => /\ IsSome(outcome.ret)
           /\ FEq(FMul(FMul(Value, Value), AsF64(N - 1)), SqDevSum(sample))
           /\ (AllEqual(sample) => FEq(Value, Zero))

\* C7, amended: for n >= 2 stddev returns the f64 square root of S / (n - 1),
\* where S is the f64 sum, added from the left, of the f64 products
\* (x_i - m) * (x_i - m) and m is mean(sample); the result is NaN or not
\* negative, and NaN when an element is infinite or NaN; n identical finite
\* values give 0.0 whenever mean returns that value.
C7_StddevBessel ==
    (called = "stddev" /\ N >= 2)
        => /\ ~outcome.panic
           /\ IsSome(outcome.ret)
           /\ SameNumber(Value, FSqrt(FDiv(SqDevSum(sample), AsF64(N - 1))))
           /\ (IsNaN(Value) \/ ~FLess(Value, Zero))
           /\ ((\E i \in Idx(sample) : IsInf(sample[i])) => IsNaN(Value))
           /\ ((AllEqual(sample) /\ IsFinite(sample[1])
                   /\ FEq(Unwrap(mean(sample).ret), sample[1]))
                  => FEq(Value, Zero))
           /\ \A i \in Idx(sample), checks \in BOOLEAN :
                  LET t == WithNaN(sample, i)
                      o == stddev(t, checks)
                  IN  /\ ~o.panic
                      /\ IsSome(o.ret)
                      /\ IsNaN(Unwrap(o.ret))
                      /\ IsNaN(FSqrt(FDiv(SqDevSum(t), AsF64(N - 1))))

C7_Witness ==
    /\ called = "stddev"
    /\ N = 3
    /\ AllEqual(sample)
    /\ sample[1] = Tenth
    /\ FLess(Zero, Value)
    /\ Value = FSqrt(FDiv(SqDevSum(sample), AsF64(2)))

\* C8: mean of the empty sample is the present value 0.0, and mean of n > 0
\* elements is the present value (x_0 + ... + x_{n-1}) / n, added from the
\* left.
C8_MeanIsAverage ==
    called = "mean"
        => /\ ~outcome.panic
           /\ IsSome(outcome.ret)
           /\ IF N = 0 THEN Value = Zero
              ELSE SameNumber(Value, FDiv(LeftSum(sample), AsF64(N)))

C8_Witness ==
    /\ called = "mean"
    /\ N = 3
    /\ sample = <<I(1), Tenth, I(1)>>
    /\ IsFinite(Value)
    /\ FLess(Tenth, Value)
    /\ FLess(Value, I(1))

\* C9 as claimed: l2 is present and not negative, 0.0 for the empty sample,
\* and the square of the result equals the sum of the squares.
C9_L2ExactNorm ==
    called = "l2"
        => /\ IsSome(outcome.ret)
           /\ ~IsNaN(Value)
           /\ ~FLess(Value, Zero)
           /\ (N = 0 => FEq(Value, Zero))
           /\ (N > 0 => FEq(FMul(Value, Value), LeftSum(Squares(sample))))

\* C9, amended: l2 is present, not NaN and not negative, 0.0 for the empty
\* sample, and for a non-empty sample the f64 square root of the f64 sum,
\* added from the left, of the f64 squares; it does not depend on the
\* signs of the elements.
C9_L2IsEuclideanNorm ==
    called = "l2"
        => /\ ~outcome.panic
           /\ IsSome(outcome.ret)
           /\ ~IsNaN(Value)
           /\ ~FLess(Value, Zero)
           /\ (N = 0 => Value = Zero)
           /\ (N > 0 => Value = FSqrt(LeftSum(Squares(sample))))
           /\ l2(AbsAll(sample)) = outcome

C9_Witness ==
    /\ called = "l2"
    /\ N = 2
    /\ \E i \in Idx(sample) : sample[i] = I(-2)
    /\ LeftSum(Squares(sample)) = I(5)
    /\ FLess(I(2), Value)
    /\ ~FEq(FMul(Value, Value), I(5))

\* C10: no call panics: every index read is inside the slice or Vec, and
\* every usize subtraction has a non-negative result, so every call returns.
C10_NoPanic == ~outcome.panic

C10_Witness ==
    /\ called = "median"
    /\ N = 2
    /\ ~outcome.panic
    /\ IsSome(outcome.ret)
    /\ sorted = <<Value, sample[IF sample[1] = Value THEN 2 ELSE 1]>>

====
